---- MODULE Spec2Model ----
(***************************************************************************)
(* Adaptive ranking formula of the candidate filter: the twelve steps of   *)
(* "Complete Mathematical Formula" applied to one candidate (Spec), the    *)
(* batch ranker built on it (BatchSpec) and the resume attribute scorer    *)
(* (ScorerSpec).  Real numbers are exact rationals [n, d] in lowest terms  *)
(* with d > 0.                                                             *)
(***************************************************************************)
EXTENDS Integers, FiniteSets, Sequences, Bags, TLC

\* ------------------------------------------------------------------ bounds
\* Largest raw platform score (in points) a scorer may hand to the formula.
MaxRaw == 300

\* Largest number of candidates in one ranking request.
MaxBatch == 3

\* ------------------------------------------------------- rational numbers
Abs(x) == IF x < 0 THEN -x ELSE x

RECURSIVE GCD(_, _)
GCD(a, b) == IF b = 0 THEN a ELSE GCD(b, a % b)

Norm(n, d) ==
    LET g == GCD(Abs(n), d) IN [n |-> n \div g, d |-> d \div g]

R(i) == [n |-> i, d |-> 1]

RAdd(a, b) ==
    LET g == GCD(a.d, b.d)
    IN  Norm(a.n * (b.d \div g) + b.n * (a.d \div g), (a.d \div g) * b.d)

RNeg(a) == [n |-> -a.n, d |-> a.d]

RSub(a, b) == RAdd(a, RNeg(b))

RMul(a, b) ==
    LET x == Norm(a.n, b.d)
        y == Norm(b.n, a.d)
    IN  [n |-> x.n * y.n, d |-> x.d * y.d]

\* a / b for b > 0
RDiv(a, b) == RMul(a, [n |-> b.d, d |-> b.n])

\* Comparison over the least common denominator.
CommonDivisor(a, b) == IF a.d = 0 /\ b.d = 0 THEN 1 ELSE GCD(a.d, b.d)

RLt(a, b) ==
    LET g == CommonDivisor(a, b)
    IN  a.n * (b.d \div g) < b.n * (a.d \div g)

RLeq(a, b) ==
    LET g == CommonDivisor(a, b)
    IN  a.n * (b.d \div g) <= b.n * (a.d \div g)

RMax(a, b) == IF RLt(a, b) THEN b ELSE a

RMin(a, b) == IF RLt(b, a) THEN b ELSE a

RECURSIVE RSum(_, _)
RSum(f, S) ==
    IF S = {} THEN R(0)
    ELSE LET k == CHOOSE x \in S : TRUE IN RAdd(f[k], RSum(f, S \ {k}))

\* A number that no step has assigned yet.
Unset == [n |-> 0, d |-> 0]

\* An adjustment total that no step has assigned yet.
NoAdj == -1

\* ------------------------------------------------------------- platforms
Platforms ==
    {"github", "leetcode", "codeforces", "linkedin", "resume", "company_questions"}

NumPlatforms == 6

\* Weights in hundredths; each configuration sums to 100.
DefaultWeights ==
    [github |-> 25, leetcode |-> 20, codeforces |-> 15,
     linkedin |-> 15, resume |-> 15, company_questions |-> 10]

\* Adjusted configurations: one moves the resume weight to github, one
\* spreads the weight evenly over github, leetcode, resume and linkedin.
NoResumeWeights ==
    [github |-> 40, leetcode |-> 20, codeforces |-> 15,
     linkedin |-> 15, resume |-> 0, company_questions |-> 10]

CoreWeights ==
    [github |-> 25, leetcode |-> 25, codeforces |-> 0,
     linkedin |-> 25, resume |-> 25, company_questions |-> 0]

WeightConfigs == {DefaultWeights, NoResumeWeights, CoreWeights}

\* Platform data of a candidate: the raw score of the platform's scorer in
\* hundredths of a point, or NoData when the platform has no data.
NoData == -1

DataDomain(k) ==
    CASE k = "github"            -> {0, 4900, 5000, 7000, 7100}
      [] k = "leetcode"          -> {4900, 5000, 10000}
      [] k = "codeforces"        -> {4000, 4100, 4900, 5000, 10000}
      [] k = "linkedin"          -> {2300, 10000}
      [] k = "resume"            -> {0, 7000, 7100, MaxRaw * 100}
      [] k = "company_questions" -> {0, 10000}

DataChoices(k) == {NoData} \cup DataDomain(k)

NoPlatformData == [k \in Platforms |-> NoData]

\* Example 2: Partial Profile (Codeforces 78.3, GitHub 59.3)
Example2Data ==
    [NoPlatformData EXCEPT !["codeforces"] = 7830, !["github"] = 5930]

\* Example 1: Complete Profile (6/6 platforms)
Example1Data ==
    [github |-> 1510, leetcode |-> 0, codeforces |-> 0,
     linkedin |-> 2300, resume |-> 7050, company_questions |-> 7500]

\* Complete Example Calculation (GitHub 68.0, LeetCode 54.25, Resume 75.67)
CompleteExampleData ==
    [NoPlatformData EXCEPT !["github"] = 6800, !["leetcode"] = 5425,
                           !["resume"] = 7567]

\* Scenario 2: Only Resume + GitHub (Resume 80, GitHub 75)
Scenario2Data ==
    [NoPlatformData EXCEPT !["resume"] = 8000, !["github"] = 7500]

ExampleData == {Example1Data, Example2Data, CompleteExampleData, Scenario2Data}

VARIABLES
    original_weight,            \* configured weights (hundredths)
    data,                       \* platform -> raw data or NoData
    pc,                         \* next step of the formula
    available, missing,
    platform_score,
    total_available_weight, adjusted_weight,
    base_score,
    completeness, confidence, confidence_level,
    confidence_adjusted_score,
    bonus, comp_bonus, penalty,
    final_score, reason,
    margin, interval,
    \* batch ranker
    b_weights,                  \* weights of the ranking request
    batch,                      \* candidate id -> submitted profile
    bpc,                        \* phase of the ranking request
    results,                    \* candidate id -> result of its scoring task
    completed,                  \* candidate ids in task completion order
    ranked,                     \* ids of the ranked results, best first
    top_k, returned,            \* requested K and the returned sequence
    \* resume scorer
    scorer_pc, scorer_in, scorer_out,
    \* recommendation of a result
    rec_pc, rec_bands, rec_in, recommendation,
    \* App: which dashboard is mounted
    isJobSeeker,
    \* handler invocations waiting at an await, and the last handler
    \* invocation that returned
    tasks, last_done,
    \* JobSeekerDashboard state
    username, resume, linkedinUrl, githubUrl, leetcodeUrl, codeforcesUrl,
    extractedData, isProcessing, isSaving,
    \* CompanyDashboard state
    company_isSaving, lastJobId, matchedCandidates, isMatching, showMatches,
    postedJobs, showJobs, isLoadingJobs, selectedJobForMatching,
    rankingMethod,
    matches_endpoint            \* endpoint that produced matchedCandidates

batch_vars == <<b_weights, batch, bpc, results, completed, ranked, top_k, returned>>
scorer_vars == <<scorer_pc, scorer_in, scorer_out>>
rec_vars == <<rec_pc, rec_bands, rec_in, recommendation>>
app_vars == <<isJobSeeker>>
task_vars == <<tasks, last_done>>
url_vars == <<linkedinUrl, githubUrl, leetcodeUrl, codeforcesUrl>>
seeker_vars ==
    <<username, resume, url_vars, extractedData, isProcessing, isSaving>>
company_vars ==
    <<company_isSaving, lastJobId, matchedCandidates, isMatching, showMatches,
      postedJobs, showJobs, isLoadingJobs, selectedJobForMatching,
      rankingMethod, matches_endpoint>>
ui_vars == <<app_vars, task_vars, seeker_vars, company_vars>>
front_vars == <<rec_vars, ui_vars>>
inputs == <<original_weight, data>>
sets == <<available, missing>>
conf == <<completeness, confidence, confidence_level>>
adjustments == <<bonus, comp_bonus, penalty>>
vars == <<original_weight, data, pc, available, missing, platform_score,
          total_available_weight, adjusted_weight, base_score,
          completeness, confidence, confidence_level,
          confidence_adjusted_score, bonus, comp_bonus, penalty,
          final_score, reason, margin, interval,
          b_weights, batch, bpc, results, completed, ranked, top_k, returned,
          scorer_pc, scorer_in, scorer_out, front_vars>>

NoInterval == [lower |-> Unset, upper |-> Unset]

\* K of a request that asks for all results.
NoK == -1

\* No ranking request is running.
BatchIdle ==
    /\ b_weights = DefaultWeights
    /\ batch = <<>>
    /\ bpc = "idle"
    /\ results = <<>>
    /\ completed = <<>>
    /\ ranked = <<>>
    /\ top_k = NoK
    /\ returned = <<>>

NoAttributes == [shape |-> "none"]

\* No attribute scorer is running.
ScorerIdle ==
    /\ scorer_pc = "idle"
    /\ scorer_in = NoAttributes
    /\ scorer_out = Unset

\* Thresholds of a result whose recommendation is not being derived.
NoBands == [strong |-> 0, recommended |-> 0, consider |-> 0]

NoResult == [final_score |-> Unset, confidence_level |-> "unset"]

\* No recommendation is being derived.
RecIdle ==
    /\ rec_pc = "idle"
    /\ rec_bands = NoBands
    /\ rec_in = NoResult
    /\ recommendation = ""

Null == "null"

\* null where the value would be a File or a ResumeData object
NullObject == [null |-> TRUE]

NoTask == [kind |-> "none"]

\* useState initial values of JobSeekerDashboard
SeekerInitial ==
    /\ username = <<>>
    /\ resume = NullObject
    /\ linkedinUrl = ""
    /\ githubUrl = ""
    /\ leetcodeUrl = ""
    /\ codeforcesUrl = ""
    /\ extractedData = NullObject
    /\ isProcessing = FALSE
    /\ isSaving = FALSE

\* useState initial values of CompanyDashboard
CompanyInitial ==
    /\ company_isSaving = FALSE
    /\ lastJobId = Null
    /\ matchedCandidates = <<>>
    /\ isMatching = FALSE
    /\ showMatches = FALSE
    /\ postedJobs = <<>>
    /\ showJobs = FALSE
    /\ isLoadingJobs = FALSE
    /\ selectedJobForMatching = Null
    /\ rankingMethod = "embedding"
    /\ matches_endpoint = Null

\* The application has just been loaded.
UiInitial ==
    /\ isJobSeeker = TRUE
    /\ tasks = EmptyBag
    /\ last_done = NoTask
    /\ SeekerInitial
    /\ CompanyInitial

FrontIdle ==
    /\ RecIdle
    /\ UiInitial

Init ==
    /\ BatchIdle
    /\ ScorerIdle
    /\ FrontIdle
    /\ original_weight \in WeightConfigs
    /\ \/ \E gh \in DataChoices("github"), lc \in DataChoices("leetcode"),
             cf \in DataChoices("codeforces"), li \in DataChoices("linkedin"),
             re \in DataChoices("resume"), cq \in DataChoices("company_questions") :
               data = [github |-> gh, leetcode |-> lc, codeforces |-> cf,
                       linkedin |-> li, resume |-> re, company_questions |-> cq]
       \/ data \in ExampleData
    /\ pc = "step1"
    /\ available = {}
    /\ missing = {}
    /\ platform_score = [k \in {} |-> Unset]
    /\ total_available_weight = Unset
    /\ adjusted_weight = [k \in {} |-> Unset]
    /\ base_score = Unset
    /\ completeness = Unset
    /\ confidence = Unset
    /\ confidence_level = "unset"
    /\ confidence_adjusted_score = Unset
    /\ bonus = NoAdj
    /\ comp_bonus = NoAdj
    /\ penalty = NoAdj
    /\ final_score = Unset
    /\ reason = ""
    /\ margin = NoAdj
    /\ interval = NoInterval

\* ---------------------------------------------------------------- steps
\* Step 1: Identify Available Platforms
Step1 ==
    /\ pc = "step1"
    /\ available' = {k \in Platforms : data[k] # NoData}
    /\ missing' = {k \in Platforms : data[k] = NoData}
    /\ pc' = "step2"
    /\ UNCHANGED <<batch_vars, scorer_vars, front_vars, inputs, platform_score, total_available_weight,
                   adjusted_weight, base_score, conf,
                   confidence_adjusted_score, adjustments, final_score,
                   reason, margin, interval>>

\* Confidence level of the result the minimum-data gate returns.
gate_level == "None"

\* Variant: the two conditions joined by AND instead of OR.
insufficient_and(avail) ==
    /\ Cardinality(avail) < 1
    /\ ("resume" \notin avail /\ "github" \notin avail)

\* Variant: the resume/github test applies only below two platforms.
insufficient_below_two(avail) ==
    \/ Cardinality(avail) < 1
    \/ ("resume" \notin avail /\ "github" \notin avail /\ Cardinality(avail) < 2)

\* len(available) < 1 OR (no resume AND no github)
insufficient(avail) ==
    \/ Cardinality(avail) < 1
    \/ ("resume" \notin avail /\ "github" \notin avail)

\* Step 2: Check Minimum Requirements
Step2 ==
    /\ pc = "step2"
    /\ IF insufficient(available)
       THEN /\ final_score' = R(0)
            /\ reason' = "Insufficient data"
            /\ confidence_level' = gate_level
            /\ pc' = "done"
       ELSE /\ pc' = "step3"
            /\ UNCHANGED <<final_score, reason, confidence_level>>
    /\ UNCHANGED <<batch_vars, scorer_vars, front_vars, inputs, sets, platform_score, total_available_weight,
                   adjusted_weight, base_score, completeness, confidence,
                   confidence_adjusted_score, adjustments, margin, interval>>

\* Step 3: Calculate Platform Scores
Step3 ==
    /\ pc = "step3"
    /\ platform_score' = [k \in available |-> Norm(data[k], 100)]
    /\ pc' = "step4"
    /\ UNCHANGED <<batch_vars, scorer_vars, front_vars, inputs, sets, total_available_weight, adjusted_weight,
                   base_score, conf, confidence_adjusted_score, adjustments,
                   final_score, reason, margin, interval>>

weight(w, k) == Norm(w[k], 100)

\* Variant: the total is taken over all six platforms.
total_weight_all(w, avail) == RSum([k \in Platforms |-> weight(w, k)], Platforms)

\* total_available_weight = sum of original_weight[i] for i in available
total_weight(w, avail) == RSum([k \in Platforms |-> weight(w, k)], avail)

\* adjusted_weight[i] = original_weight[i] / total_available_weight
redistribute(w, avail) ==
    [k \in avail |-> RDiv(weight(w, k), total_weight(w, avail))]

\* Step 4: Redistribute Weights Dynamically.  A zero total makes the
\* division fail and the candidate gets no result.
Step4 ==
    /\ pc = "step4"
    /\ total_available_weight' = total_weight(original_weight, available)
    /\ IF total_available_weight'.n = 0
       THEN /\ pc' = "failed"
            /\ UNCHANGED adjusted_weight
       ELSE /\ adjusted_weight' = redistribute(original_weight, available)
            /\ pc' = "step5"
    /\ UNCHANGED <<batch_vars, scorer_vars, front_vars, inputs, sets, platform_score, base_score, conf,
                   confidence_adjusted_score, adjustments, final_score,
                   reason, margin, interval>>

\* Step 5: Calculate Base Score
Step5 ==
    /\ pc = "step5"
    /\ base_score' =
          RSum([k \in available |-> RMul(platform_score[k], adjusted_weight[k])],
               available)
    /\ pc' = "step6"
    /\ UNCHANGED <<batch_vars, scorer_vars, front_vars, inputs, sets, platform_score, total_available_weight,
                   adjusted_weight, conf, confidence_adjusted_score,
                   adjustments, final_score, reason, margin, interval>>

\* Variant: completeness over five platforms.
completeness_of_five(avail) == Norm(Cardinality(avail), NumPlatforms - 1)

\* completeness = len(available) / 6
completeness_of(avail) == Norm(Cardinality(avail), NumPlatforms)

\* Variant: 0.25 instead of 0.30.
confidence_of_quarter(c) == RAdd(Norm(70, 100), RMul(Norm(25, 100), c))

\* confidence = 0.70 + (0.30 x completeness)
confidence_of(c) == RAdd(Norm(70, 100), RMul(Norm(30, 100), c))

\* Variant: High already from four platforms.
level_of_high4(n) ==
    CASE n >= 4 -> "High"
      [] n = 3 -> "Good"
      [] n = 2 -> "Moderate"
      [] n = 1 -> "Low"
      [] OTHER -> "None"

\* Confidence level by number of platforms (Confidence Intervals table).
level_of(n) ==
    CASE n >= 5 -> "High"
      [] n >= 3 /\ n < 5 -> "Good"
      [] n = 2 -> "Moderate"
      [] n = 1 -> "Low"
      [] OTHER -> "None"

\* Step 6: Calculate Confidence
Step6 ==
    /\ pc = "step6"
    /\ completeness' = completeness_of(available)
    /\ confidence' = confidence_of(completeness')
    /\ confidence_level' = level_of(Cardinality(available))
    /\ pc' = "step7"
    /\ UNCHANGED <<batch_vars, scorer_vars, front_vars, inputs, sets, platform_score, total_available_weight,
                   adjusted_weight, base_score, confidence_adjusted_score,
                   adjustments, final_score, reason, margin, interval>>

\* Step 7: Apply Confidence Adjustment
Step7 ==
    /\ pc = "step7"
    /\ confidence_adjusted_score' = RMul(base_score, confidence)
    /\ pc' = "step8"
    /\ UNCHANGED <<batch_vars, scorer_vars, front_vars, inputs, sets, platform_score, total_available_weight,
                   adjusted_weight, base_score, conf, adjustments,
                   final_score, reason, margin, interval>>

has(avail, k) == k \in avail

\* Variant: both coding platforms required.
has_both_coding_platforms(avail) == has(avail, "leetcode") /\ has(avail, "codeforces")

has_coding_platform(avail) == has(avail, "leetcode") \/ has(avail, "codeforces")

\* Variant: the resume + linkedin line is missing.
bonus_of_two_lines(avail) ==
    LET b0 == 0
        b1 == IF has(avail, "resume") THEN b0 + 5 ELSE b0
        b2 == IF has(avail, "github") /\ has_coding_platform(avail)
              THEN b1 + 3 ELSE b1
    IN  b2

\* bonus = 0; three independent "bonus +=" lines
bonus_of(avail) ==
    LET b0 == 0
        b1 == IF has(avail, "resume") THEN b0 + 5 ELSE b0
        b2 == IF has(avail, "github") /\ has_coding_platform(avail)
              THEN b1 + 3 ELSE b1
        b3 == IF has(avail, "resume") /\ has(avail, "linkedin")
              THEN b2 + 2 ELSE b2
    IN  b3

\* Step 8: Calculate Bonuses
Step8 ==
    /\ pc = "step8"
    /\ bonus' = bonus_of(available)
    /\ pc' = "step9"
    /\ UNCHANGED <<batch_vars, scorer_vars, front_vars, inputs, sets, platform_score, total_available_weight,
                   adjusted_weight, base_score, conf,
                   confidence_adjusted_score, comp_bonus, penalty,
                   final_score, reason, margin, interval>>

\* Score a comparison reads for platform k: a missing platform reads as
\* no evidence, so it is never strong and always weak.
score_read(avail, ps, k) == IF k \in avail THEN ps[k] ELSE R(0)

\* Average over the coding platforms that are present.
avg_coding_score(avail, ps) ==
    LET coding == avail \cap {"leetcode", "codeforces"}
    IN  IF coding = {} THEN R(0)
        ELSE RDiv(RSum(ps, coding), R(Cardinality(coding)))

\* Variant: "> 80".
strong_gt80(x) == RLt(R(80), x)

\* Variant: ">= 70".
strong_ge(x) == RLeq(R(70), x)

\* "> 70": the strong side of a compensatory rule
strong(x) == RLt(R(70), x)

\* Variant: "< 80".
weak_lt80(x) == RLt(x, R(80))

\* "< 50": the weak side of a compensatory rule
weak(x) == RLt(x, R(50))

\* comp_bonus = 0; the rules of Step 9 in order
comp_bonus_of(avail, ps) ==
    LET github_score == score_read(avail, ps, "github")
        resume_score == score_read(avail, ps, "resume")
        c0 == 0
        c1 == IF strong(github_score)
              THEN LET a == IF "leetcode" \notin avail \/ weak(ps["leetcode"])
                            THEN c0 + 5 ELSE c0
                   IN  IF "codeforces" \notin avail \/ weak(ps["codeforces"])
                       THEN a + 3 ELSE a
              ELSE c0
        c2 == IF strong(resume_score) /\ "linkedin" \notin avail
              THEN c1 + 3 ELSE c1
        c3 == IF strong(avg_coding_score(avail, ps)) /\ weak(github_score)
              THEN c2 + 4 ELSE c2
    IN  c3

\* Step 9: Calculate Compensatory Bonuses
Step9 ==
    /\ pc = "step9"
    /\ comp_bonus' = comp_bonus_of(available, platform_score)
    /\ pc' = "step10"
    /\ UNCHANGED <<batch_vars, scorer_vars, front_vars, inputs, sets, platform_score, total_available_weight,
                   adjusted_weight, base_score, conf,
                   confidence_adjusted_score, bonus, penalty,
                   final_score, reason, margin, interval>>

\* Variant: the single-platform penalty also hits two platforms.
penalty_of_le2(avail) ==
    LET p0 == 0
        p1 == IF Cardinality(avail) <= 2 THEN p0 + 10 ELSE p0
        p2 == IF "resume" \notin avail /\ "github" \notin avail
              THEN p1 + 5 ELSE p1
    IN  p2

\* penalty = 0; two independent "penalty +=" lines
penalty_of(avail) ==
    LET p0 == 0
        p1 == IF Cardinality(avail) < 2 THEN p0 + 10 ELSE p0
        p2 == IF "resume" \notin avail /\ "github" \notin avail
              THEN p1 + 5 ELSE p1
    IN  p2

\* Step 10: Calculate Penalties
Step10 ==
    /\ pc = "step10"
    /\ penalty' = penalty_of(available)
    /\ pc' = "step11"
    /\ UNCHANGED <<batch_vars, scorer_vars, front_vars, inputs, sets, platform_score, total_available_weight,
                   adjusted_weight, base_score, conf,
                   confidence_adjusted_score, bonus, comp_bonus,
                   final_score, reason, margin, interval>>

\* Variant: the upper cap is missing.
clamp_no_cap(x) == RMax(R(0), x)

\* min(100, max(0, x))
clamp(x) == RMin(R(100), RMax(R(0), x))

\* Step 11: Calculate Final Score
Step11 ==
    /\ pc = "step11"
    /\ final_score' =
          clamp(RSub(RAdd(RAdd(confidence_adjusted_score, R(bonus)),
                          R(comp_bonus)),
                     R(penalty)))
    /\ pc' = "step12"
    /\ UNCHANGED <<batch_vars, scorer_vars, front_vars, inputs, sets, platform_score, total_available_weight,
                   adjusted_weight, base_score, conf,
                   confidence_adjusted_score, adjustments,
                   reason, margin, interval>>

\* Variant: Moderate uses the Good margin.
margin_of_moderate5(level) ==
    CASE level = "High" -> 3
      [] level = "Good" -> 5
      [] level = "Moderate" -> 5
      [] level = "Low" -> 12

\* margin = {High: 3, Good: 5, Moderate: 8, Low: 12}
margin_of(level) ==
    CASE level = "High" -> 3
      [] level = "Good" -> 5
      [] level = "Moderate" -> 8
      [] level = "Low" -> 12

\* Step 12: Calculate Confidence Interval
Step12 ==
    /\ pc = "step12"
    /\ margin' = margin_of(confidence_level)
    /\ interval' = [lower |-> RSub(final_score, R(margin')),
                    upper |-> RAdd(final_score, R(margin'))]
    /\ pc' = "done"
    /\ UNCHANGED <<batch_vars, scorer_vars, front_vars, inputs, sets, platform_score, total_available_weight,
                   adjusted_weight, base_score, conf,
                   confidence_adjusted_score, adjustments,
                   final_score, reason>>

Next ==
    \/ Step1
    \/ Step2
    \/ Step3
    \/ Step4
    \/ Step5
    \/ Step6
    \/ Step7
    \/ Step8
    \/ Step9
    \/ Step10
    \/ Step11
    \/ Step12

Spec == Init /\ [][Next]_vars

\* ---------------------------------------------------------- batch ranker
\* The formula is not running on a single candidate.
PipelineIdle ==
    /\ original_weight = DefaultWeights
    /\ data = NoPlatformData
    /\ pc = "idle"
    /\ available = {}
    /\ missing = {}
    /\ platform_score = [k \in {} |-> Unset]
    /\ total_available_weight = Unset
    /\ adjusted_weight = [k \in {} |-> Unset]
    /\ base_score = Unset
    /\ completeness = Unset
    /\ confidence = Unset
    /\ confidence_level = "unset"
    /\ confidence_adjusted_score = Unset
    /\ bonus = NoAdj
    /\ comp_bonus = NoAdj
    /\ penalty = NoAdj
    /\ final_score = Unset
    /\ reason = ""
    /\ margin = NoAdj
    /\ interval = NoInterval

pipeline_vars ==
    <<original_weight, data, pc, available, missing, platform_score,
      total_available_weight, adjusted_weight, base_score,
      completeness, confidence, confidence_level,
      confidence_adjusted_score, bonus, comp_bonus, penalty,
      final_score, reason, margin, interval>>

\* Steps 1-12 on the platform data d under weights w, as one function.
\* status: "gated" (Step 2 return), "failed" (Step 4 divides by a zero
\* total), "scored" otherwise.
score_candidate(w, d) ==
    LET avail == {k \in Platforms : d[k] # NoData}
    IN  IF insufficient(avail)
        THEN [status |-> "gated", final_score |-> R(0),
              confidence_level |-> gate_level, interval |-> NoInterval,
              warning |-> ""]
        ELSE IF total_weight(w, avail).n = 0
        THEN [status |-> "failed", final_score |-> Unset,
              confidence_level |-> "unset", interval |-> NoInterval,
              warning |-> ""]
        ELSE LET ps == [k \in avail |-> Norm(d[k], 100)]
                 aw == redistribute(w, avail)
                 base == RSum([k \in avail |-> RMul(ps[k], aw[k])], avail)
                 cf == confidence_of(completeness_of(avail))
                 fs == clamp(RSub(RAdd(RAdd(RMul(base, cf), R(bonus_of(avail))),
                                       R(comp_bonus_of(avail, ps))),
                                  R(penalty_of(avail))))
                 lv == level_of(Cardinality(avail))
                 mg == margin_of(lv)
             IN  [status |-> "scored", final_score |-> fs,
                  confidence_level |-> lv,
                  interval |-> [lower |-> RSub(fs, R(mg)),
                                upper |-> RAdd(fs, R(mg))],
                  warning |-> ""]

\* Result of a candidate whose scoring task raised an error: no score, a
\* warning attached.
ErrorResult ==
    [status |-> "error", final_score |-> Unset, confidence_level |-> "unset",
     interval |-> NoInterval, warning |-> "scoring failed"]

PendingResult ==
    [status |-> "pending", final_score |-> Unset, confidence_level |-> "unset",
     interval |-> NoInterval, warning |-> ""]

\* One scoring task: an attribute record of the wrong shape, or an error
\* inside the formula, is caught and reported on the candidate.
run_task(w, c) ==
    IF c.shape = "malformed" THEN ErrorResult
    ELSE LET r == score_candidate(w, c.data)
         IN  IF r.status = "failed" THEN ErrorResult ELSE r

\* Variant: every finished task enters the ranking.
rankable_all(r) == r.status # "pending"

\* Results that take part in the ranking order.
rankable(r) == r.status \in {"scored", "gated"}

\* Variant: final_score alone, no tie-break.
precedes_score_only(res, a, b) == RLt(res[b].final_score, res[a].final_score)

\* a is ranked before b: final_score descending, identifier ascending.
precedes(res, a, b) ==
    \/ RLt(res[b].final_score, res[a].final_score)
    \/ (res[a].final_score = res[b].final_score /\ a < b)

RECURSIVE insert_ranked(_, _, _)
insert_ranked(res, seq, i) ==
    IF seq = <<>> THEN <<i>>
    ELSE IF precedes(res, i, Head(seq)) THEN <<i>> \o seq
    ELSE <<Head(seq)>> \o insert_ranked(res, Tail(seq), i)

\* The single sequential sort over the collected results.
RECURSIVE sort_results(_, _)
sort_results(res, order) ==
    IF order = <<>> THEN <<>>
    ELSE LET last == order[Len(order)]
             rest == sort_results(res, SubSeq(order, 1, Len(order) - 1))
         IN  IF rankable(res[last]) THEN insert_ranked(res, rest, last)
             ELSE rest

\* Variant: one entry more than requested.
top_k_of_plus_one(seq, k) ==
    IF k = NoK \/ k + 1 >= Len(seq) THEN seq ELSE SubSeq(seq, 1, k + 1)

\* The top-K requested, or all if K is unspecified.
top_k_of(seq, k) ==
    IF k = NoK \/ k >= Len(seq) THEN seq ELSE SubSeq(seq, 1, k)

GatedData == [NoPlatformData EXCEPT !["codeforces"] = 10000]

ResumeOnlyData == [NoPlatformData EXCEPT !["resume"] = 7100]

\* Profiles a candidate may submit.
BatchProfiles ==
    {[shape |-> "ok", data |-> d] :
        d \in {Example2Data, Scenario2Data, ResumeOnlyData, GatedData}}
    \cup {[shape |-> "malformed", data |-> NoPlatformData]}

BatchIds == 1..Len(batch)

BatchInit ==
    /\ PipelineIdle
    /\ ScorerIdle
    /\ FrontIdle
    /\ b_weights \in {DefaultWeights, NoResumeWeights}
    /\ \E n \in 0..MaxBatch : batch \in [1..n -> BatchProfiles]
    /\ bpc = "scoring"
    /\ results = [i \in BatchIds |-> PendingResult]
    /\ completed = <<>>
    /\ ranked = <<>>
    /\ top_k = NoK
    /\ returned = <<>>

\* The scoring task of candidate i finishes; tasks finish in any order.
ScoreTask(i) ==
    /\ bpc = "scoring"
    /\ i \in BatchIds
    /\ results[i].status = "pending"
    /\ results' = [results EXCEPT ![i] = run_task(b_weights, batch[i])]
    /\ completed' = Append(completed, i)
    /\ UNCHANGED <<pipeline_vars, scorer_vars, front_vars, b_weights, batch, bpc, ranked,
                   top_k, returned>>

\* All tasks are collected: sort once.
SortResults ==
    /\ bpc = "scoring"
    /\ Len(completed) = Len(batch)
    /\ ranked' = sort_results(results, completed)
    /\ bpc' = "sorted"
    /\ UNCHANGED <<pipeline_vars, scorer_vars, front_vars, b_weights, batch, results,
                   completed, top_k, returned>>

\* Return the top K, or everything when K is unspecified.
ReturnTopK(k) ==
    /\ bpc = "sorted"
    /\ top_k' = k
    /\ returned' = top_k_of(ranked, k)
    /\ bpc' = "done"
    /\ UNCHANGED <<pipeline_vars, scorer_vars, front_vars, b_weights, batch, results,
                   completed, ranked>>

BatchNext ==
    \/ \E i \in 1..MaxBatch : ScoreTask(i)
    \/ SortResults
    \/ \E k \in {NoK} \cup 0..(MaxBatch + 1) : ReturnTopK(k)

BatchSpec == BatchInit /\ [][BatchNext]_vars

\* ------------------------------------------------------- platform scorers
\* a / b as an exact fraction, b > 0
Ratio(a, b) == Norm(a, b)

Pairs == {<<0, 0>>, <<3, 0>>, <<3, 2>>, <<3, 3>>}

\* ---- GitHub
stars_score(stars) ==
    IF stars >= 1000 THEN 25
    ELSE IF stars >= 500 THEN 22
    ELSE IF stars >= 100 THEN 18
    ELSE IF stars >= 50 THEN 14
    ELSE IF stars >= 10 THEN 10
    ELSE IF stars >= 1 THEN 5
    ELSE 0

RECURSIVE domain_sum(_)
domain_sum(top_repos) ==
    IF top_repos = <<>> THEN R(0)
    ELSE RAdd(IF Head(top_repos) > 0
                 THEN RMin(R(5), R(Head(top_repos) * 2))
                 ELSE R(0),
              domain_sum(Tail(top_repos)))

github_divides_by_zero(a) == a.required_skills = 0 \/ a.total_repos = 0

github_score(a) ==
    LET repos_score == RMin(R(15), RMul(Ratio(a.repos, 50), R(15)))
        followers_score == RMin(R(10), RMul(Ratio(a.followers, 100), R(10)))
        languages_score == RMin(R(10), RMul(Ratio(a.num_languages, 5), R(10)))
        skills_match_score ==
            RMul(Ratio(a.matched_skills, a.required_skills), R(10))
        quality_score == RMul(Ratio(a.quality_repos, a.total_repos), R(15))
        domain_score == RMin(R(15), domain_sum(a.top_repos))
    IN  RAdd(repos_score,
        RAdd(R(stars_score(a.stars)),
        RAdd(followers_score,
        RAdd(languages_score,
        RAdd(skills_match_score,
        RAdd(quality_score, domain_score))))))

GithubAttributes ==
    {[platform |-> "github", repos |-> rp[1], total_repos |-> rp[1],
      quality_repos |-> rp[2], stars |-> st, followers |-> fo,
      num_languages |-> nl, matched_skills |-> sk[2],
      required_skills |-> sk[1], top_repos |-> tr] :
        rp \in {<<0, 0>>, <<25, 10>>, <<50, 50>>, <<60, 60>>},
        st \in {0, 1, 10, 50, 100, 500, 1000},
        fo \in {0, 50, 200},
        nl \in {0, 5},
        sk \in Pairs,
        tr \in {<<>>, <<1>>, <<3, 3, 3>>, <<3, 0, 3, 3>>}}

\* ---- LeetCode
ranking_score(ranking) ==
    IF ranking < 100000 THEN 10
    ELSE IF ranking < 500000 THEN 7
    ELSE IF ranking < 1000000 THEN 5
    ELSE IF ranking < 2000000 THEN 3
    ELSE 0

leetcode_score(a) ==
    LET solved_score == RMin(R(50), RMul(Ratio(a.total_solved, 500), R(50)))
        weighted_difficulty == Ratio(a.easy * 1 + a.medium * 2 + a.hard * 3, 6)
        difficulty_score ==
            RMin(R(30), RMul(RDiv(weighted_difficulty, R(200)), R(30)))
        acceptance_score == RMul(Ratio(a.acceptance_rate, 100), R(10))
    IN  RAdd(solved_score,
        RAdd(difficulty_score,
        RAdd(acceptance_score, R(ranking_score(a.ranking)))))

LeetcodeAttributes ==
    {[platform |-> "leetcode", total_solved |-> ts, easy |-> df[1],
      medium |-> df[2], hard |-> df[3], acceptance_rate |-> ar,
      ranking |-> rk] :
        ts \in {0, 250, 500, 600},
        df \in {<<0, 0, 0>>, <<100, 100, 50>>, <<300, 300, 300>>},
        ar \in {0, 50, 100},
        rk \in {50000, 300000, 700000, 1500000, 3000000}}

\* ---- Codeforces
rank_scores ==
    [x \in {"legendary grandmaster", "international grandmaster",
            "grandmaster", "international master", "master",
            "candidate master", "expert", "specialist", "pupil", "newbie"} |->
        CASE x = "legendary grandmaster" -> 20
          [] x = "international grandmaster" -> 18
          [] x = "grandmaster" -> 16
          [] x = "international master" -> 14
          [] x = "master" -> 12
          [] x = "candidate master" -> 10
          [] x = "expert" -> 8
          [] x = "specialist" -> 6
          [] x = "pupil" -> 4
          [] x = "newbie" -> 2]

codeforces_score(a) ==
    LET rating_score == RMin(R(40), RMul(Ratio(a.rating, 3500), R(40)))
        contests_score == RMin(R(30), RMul(Ratio(a.contests, 100), R(30)))
        rank_score ==
            IF a.rank \in DOMAIN rank_scores THEN rank_scores[a.rank] ELSE 0
        contribution_score ==
            RMin(R(10), RMax(R(0), Ratio(a.contribution, 10)))
    IN  RAdd(rating_score,
        RAdd(contests_score,
        RAdd(R(rank_score), contribution_score)))

CodeforcesAttributes ==
    {[platform |-> "codeforces", rating |-> rt, contests |-> ct,
      rank |-> rk, contribution |-> cb] :
        rt \in {0, 1750, 3500, 3800},
        ct \in {0, 50, 100, 150},
        rk \in DOMAIN rank_scores \cup {"unrated"},
        cb \in {-20, 0, 50, 100, 200}}

\* ---- LinkedIn
ProfileFields ==
    {"name", "headline", "summary", "location", "photo", "experience"}

field_credit(f) ==
    CASE f = "name" -> 4
      [] f = "headline" -> 5
      [] f = "summary" -> 5
      [] f = "location" -> 3
      [] f = "photo" -> 3
      [] f = "experience" -> 5

RECURSIVE profile_completeness(_)
profile_completeness(fields) ==
    IF fields = {} THEN 0
    ELSE LET f == CHOOSE x \in fields : TRUE
         IN  field_credit(f) + profile_completeness(fields \ {f})

degree_bonus(education_text) ==
    IF education_text = "phd" THEN 10
    ELSE IF education_text = "master" THEN 7
    ELSE IF education_text = "bachelor" THEN 4
    ELSE 0

network_score(connections) ==
    IF connections >= 500 THEN 10
    ELSE IF connections >= 200 THEN 8
    ELSE IF connections >= 100 THEN 6
    ELSE IF connections >= 50 THEN 4
    ELSE 2

linkedin_divides_by_zero(a) == a.total_required = 0

linkedin_score(a) ==
    LET base_exp_score ==
            RMin(R(20), RMul(Ratio(a.valid_experiences, 3), R(20)))
        domain_bonus ==
            IF a.matches > 0 THEN RMin(R(5), R(a.matches * 2)) ELSE R(0)
        experience_score == RAdd(base_exp_score, domain_bonus)
        base_edu_score ==
            RMin(R(15), RMul(Ratio(a.valid_education, 2), R(15)))
        education_score ==
            RAdd(base_edu_score, R(degree_bonus(a.education_text)))
        base_skills_score ==
            RMin(R(10), RMul(Ratio(a.skill_count, 10), R(10)))
        match_score == RMul(Ratio(a.matched_skills, a.total_required), R(10))
        skills_score == RAdd(base_skills_score, match_score)
    IN  RAdd(R(profile_completeness(a.has_fields)),
        RAdd(experience_score,
        RAdd(education_score,
        RAdd(R(network_score(a.connections)), skills_score))))

LinkedinAttributes ==
    {[platform |-> "linkedin", has_fields |-> hs, valid_experiences |-> ve,
      matches |-> mt, valid_education |-> ed, education_text |-> dg,
      connections |-> cn, skill_count |-> sc, matched_skills |-> sk[2],
      total_required |-> sk[1]] :
        hs \in SUBSET ProfileFields,
        ve \in {0, 3},
        mt \in {0, 3},
        ed \in {0, 2},
        dg \in {"phd", "master", "bachelor", "none"},
        cn \in {0, 50, 100, 200, 500},
        sc \in {0, 12},
        sk \in {<<0, 0>>, <<3, 1>>, <<3, 3>>}}

\* ---- Resume
education_scores ==
    [x \in {"PhD", "Master's", "Bachelor's", "High School", "Unknown"} |->
        CASE x = "PhD" -> 30
          [] x = "Master's" -> 22
          [] x = "Bachelor's" -> 15
          [] x = "High School" -> 5
          [] x = "Unknown" -> 0]

\* Position of a tier in the order of education_scores, lowest first.
education_tier(x) ==
    CASE x = "PhD" -> 4
      [] x = "Master's" -> 3
      [] x = "Bachelor's" -> 2
      [] x = "High School" -> 1
      [] x = "Unknown" -> 0

exp_score(experience, min_required) ==
    IF experience >= min_required
    THEN IF experience >= 10 THEN 25
         ELSE IF experience >= 5 THEN 22
         ELSE IF experience >= 3 THEN 18
         ELSE IF experience >= 1 THEN 15
         ELSE 12
    ELSE IF experience * 3 < 10 THEN experience * 3 ELSE 10

resume_divides_by_zero(a) == a.required_skills = 0 \/ a.total_keywords = 0

resume_score(a) ==
    LET base_education == education_scores[a.education_level]
        education_score ==
            IF education_tier(a.education_level)
                   < education_tier(a.required_education)
            THEN base_education - 10
            ELSE base_education
        skills_count_score ==
            RMin(R(10), RMul(Ratio(a.skill_count, 10), R(10)))
        required_match_score ==
            RMul(Ratio(a.matched_skills, a.required_skills), R(15))
        domain_match_score ==
            RMul(Ratio(a.matched_keywords, a.total_keywords), R(10))
        certs_score == RMin(R(5), RMul(R(a.cert_count), Ratio(3, 2)))
        projects_score == RMin(R(5), R(a.project_count * 1))
        extras_score == RAdd(certs_score, projects_score)
    IN  RAdd(R(education_score),
        RAdd(R(exp_score(a.experience, a.min_required)),
        RAdd(skills_count_score,
        RAdd(required_match_score,
        RAdd(domain_match_score, extras_score)))))

ResumeAttributes ==
    {[platform |-> "resume", education_level |-> el,
      required_education |-> re, experience |-> ex, min_required |-> mr,
      skill_count |-> sc, matched_skills |-> sk[2],
      required_skills |-> sk[1], matched_keywords |-> kw[2],
      total_keywords |-> kw[1], cert_count |-> cc, project_count |-> pj] :
        el \in DOMAIN education_scores,
        re \in {"Unknown", "Bachelor's"},
        ex \in {0, 1, 3, 5, 10},
        mr \in {0, 2},
        sc \in {0, 8, 12},
        sk \in Pairs,
        kw \in Pairs,
        cc \in {0, 2, 4},
        pj \in {0, 3, 6}}

\* ---- Company questions
questions_divides_by_zero(a) == a.total_points = 0

questions_score(a) == RMul(Ratio(a.points_earned, a.total_points), R(100))

QuestionsAttributes ==
    {[platform |-> "company_questions", points_earned |-> pt[1],
      total_points |-> pt[2]] :
        pt \in {<<0, 0>>, <<0, 10>>, <<5, 10>>, <<7, 20>>, <<10, 10>>}}

\* ---- one scorer call
ScorerInit ==
    /\ PipelineIdle
    /\ BatchIdle
    /\ FrontIdle
    /\ scorer_pc = "called"
    /\ scorer_in \in GithubAttributes \cup LeetcodeAttributes
                      \cup CodeforcesAttributes \cup LinkedinAttributes
                      \cup ResumeAttributes \cup QuestionsAttributes
    /\ scorer_out = Unset

\* The call returns value, or raises when the scorer divides by zero.
Return(raises, value) ==
    /\ scorer_pc = "called"
    /\ IF raises
          THEN scorer_pc' = "raised" /\ scorer_out' = Unset
          ELSE scorer_pc' = "returned" /\ scorer_out' = value
    /\ UNCHANGED <<scorer_in, pipeline_vars, batch_vars, front_vars>>

ScoreGithub ==
    /\ scorer_in.platform = "github"
    /\ Return(github_divides_by_zero(scorer_in), github_score(scorer_in))

ScoreLeetcode ==
    /\ scorer_in.platform = "leetcode"
    /\ Return(FALSE, leetcode_score(scorer_in))

ScoreCodeforces ==
    /\ scorer_in.platform = "codeforces"
    /\ Return(FALSE, codeforces_score(scorer_in))

ScoreLinkedin ==
    /\ scorer_in.platform = "linkedin"
    /\ Return(linkedin_divides_by_zero(scorer_in), linkedin_score(scorer_in))

ScoreResume ==
    /\ scorer_in.platform = "resume"
    /\ Return(resume_divides_by_zero(scorer_in), resume_score(scorer_in))

ScoreQuestions ==
    /\ scorer_in.platform = "company_questions"
    /\ Return(questions_divides_by_zero(scorer_in),
              questions_score(scorer_in))

ScorerNext ==
    \/ ScoreGithub
    \/ ScoreLeetcode
    \/ ScoreCodeforces
    \/ ScoreLinkedin
    \/ ScoreResume
    \/ ScoreQuestions

ScorerSpec == ScorerInit /\ [][ScorerNext]_vars

\* ------------------------------------------------- recommendation tier
\* Results shown with their recommendation: 75.5 is "Recommended",
\* 63.55 is "Consider" (scores in hundredths).
DocumentedRecommended == 7550

DocumentedConsider == 6355

\* Lower ends of the bands.  The source shows no threshold, only the two
\* results above: Recommended starts above 63.55 and at or below 75.5,
\* Strong starts above 75.5, Consider at or below 63.55.
BandChoices ==
    {[strong |-> st, recommended |-> rc, consider |-> cn] :
        st \in {8000, 8500}, rc \in {6500, 7000, 7500},
        cn \in {4000, 5000, 6000}}

\* The tiers with Recommended starting at 60.
recommendation_of_from_60(b, score) ==
    IF score >= 8000 THEN "Strong"
    ELSE IF score >= 6000 THEN "Recommended"
    ELSE IF score >= 4000 THEN "Consider"
    ELSE "Not Recommended"

\* The tier of a final_score (hundredths) under bands b, highest first.
recommendation_of(b, score) ==
    IF score >= b.strong THEN "Strong"
    ELSE IF score >= b.recommended THEN "Recommended"
    ELSE IF score >= b.consider THEN "Consider"
    ELSE "Not Recommended"

ResultScores ==
    {0, 3999, 4000, 5999, 6000, DocumentedConsider, 6499, 6500,
     DocumentedRecommended, 7999, 8000, 10000}

RecInit ==
    /\ PipelineIdle
    /\ BatchIdle
    /\ ScorerIdle
    /\ rec_pc = "built"
    /\ rec_bands \in BandChoices
    /\ rec_in \in [final_score : ResultScores,
                   confidence_level : {"High", "Good", "Moderate", "Low", "None"}]
    /\ recommendation = ""
    /\ UiInitial

\* The result gets its recommendation text.
Recommend ==
    /\ rec_pc = "built"
    /\ recommendation' = recommendation_of(rec_bands, rec_in.final_score)
    /\ rec_pc' = "recommended"
    /\ UNCHANGED <<rec_bands, rec_in, pipeline_vars, batch_vars, scorer_vars,
                   ui_vars>>

RecNext == Recommend

RecSpec == RecInit /\ [][RecNext]_vars

\* ------------------------------------------------------------ dashboards
MaxTasks == 2

rest_vars == <<pipeline_vars, batch_vars, scorer_vars, rec_vars>>

\* Strings as sequences of characters.
IsSpace(c) == c = " "

RECURSIVE TrimLeft(_)
TrimLeft(u) ==
    IF u # <<>> /\ IsSpace(Head(u)) THEN TrimLeft(Tail(u)) ELSE u

RECURSIVE TrimRight(_)
TrimRight(u) ==
    IF u # <<>> /\ IsSpace(u[Len(u)])
    THEN TrimRight(SubSeq(u, 1, Len(u) - 1))
    ELSE u

\* username.trim()
Trim_nothing(u) == u

Trim(u) == TrimRight(TrimLeft(u))

\* .replace(/\s+/g, '_')
RECURSIVE ReplaceSpaces(_)
ReplaceSpaces(u) ==
    IF u = <<>> THEN <<>>
    ELSE IF IsSpace(Head(u))
         THEN <<"_">> \o ReplaceSpaces(TrimLeft(u))
         ELSE <<Head(u)>> \o ReplaceSpaces(Tail(u))

Usernames == {<<>>, <<" ">>, <<" ", "a", " ", " ", "b", " ">>}

Urls == {"", "https://profile"}

\* The URL fields the user types into.
TypedUrlFields == {"codeforces"}

Files ==
    {[name |-> "a.pdf", email |-> "a@mail"],
     [name |-> "b.pdf", email |-> "b@mail"]}

\* What a successful parse of the file returns.
extractResumeData(file) == [email |-> file.email]

\* A handler starts waiting at an await: t joins the bag of tasks.
Await(t) ==
    /\ BagCardinality(tasks) < MaxTasks
    /\ tasks' = tasks (+) SetToBag({t})

\* The component instance that started t is still mounted.
Mounted(t) == t.mounted

\* finally { setFlag(false) }: the value of the busy flag after t returned.
cleared_never(t, flag) == flag

cleared(t, flag) == IF Mounted(t) THEN FALSE ELSE flag

\* t moves to its next await.
Continue(t, u) == tasks' = (tasks (-) SetToBag({t})) (+) SetToBag({u})

\* No entry of the response holds a candidate.
NoCandidates(u) ==
    /\ (u.matches = "absent" \/ u.matches = <<>>)
    /\ (u.rankings = "absent" \/ u.rankings = <<>>)

\* What is kept of a handler invocation that returned.
Returned(u, a) ==
    IF u.kind = "save"
    THEN [kind |-> "save", alert |-> a, embed |-> u.embed, fetch |-> u.fetch,
          urls |-> u.urls]
    ELSE IF u.kind = "find"
    THEN [kind |-> "find", alert |-> a, response |-> u.response,
          no_candidates |-> NoCandidates(u)]
    ELSE [kind |-> u.kind, alert |-> a]

\* An invocation whose component instance was unmounted: its state setters
\* do nothing, so only what its remaining steps read is kept.
Unmounted(t) ==
    IF t.kind = "save"
    THEN [kind |-> "save", pc |-> t.pc, mounted |-> FALSE,
          urls |-> t.urls, embed |-> t.embed, fetch |-> t.fetch]
    ELSE [kind |-> t.kind, pc |-> t.pc, mounted |-> FALSE]

RECURSIVE Copies(_, _)
Copies(bag, S) ==
    IF S = {} THEN 0
    ELSE LET t == CHOOSE x \in S : TRUE
         IN  bag[t] + Copies(bag, S \ {t})

\* Every task of the bag is unmounted.
UnmountAll(bag) ==
    [u \in {Unmounted(t) : t \in BagToSet(bag)} |->
        Copies(bag, {t \in BagToSet(bag) : Unmounted(t) = u})]

\* t returns, having shown the alert a.
Finish(t, u, a) ==
    /\ tasks' = tasks (-) SetToBag({t})
    /\ last_done' = Returned(u, a)

\* ---- App
\* The header switch: the other dashboard is mounted with fresh state.
ToggleDashboard ==
    /\ isJobSeeker' = ~isJobSeeker
    /\ tasks' = UnmountAll(tasks)
    /\ UNCHANGED last_done
    /\ username' = <<>>
    /\ resume' = NullObject
    /\ linkedinUrl' = ""
    /\ githubUrl' = ""
    /\ leetcodeUrl' = ""
    /\ codeforcesUrl' = ""
    /\ extractedData' = NullObject
    /\ isProcessing' = FALSE
    /\ isSaving' = FALSE
    /\ company_isSaving' = FALSE
    /\ lastJobId' = Null
    /\ matchedCandidates' = <<>>
    /\ isMatching' = FALSE
    /\ showMatches' = FALSE
    /\ postedJobs' = <<>>
    /\ showJobs' = FALSE
    /\ isLoadingJobs' = FALSE
    /\ selectedJobForMatching' = Null
    /\ rankingMethod' = "embedding"
    /\ matches_endpoint' = Null
    /\ UNCHANGED rest_vars

\* ---- JobSeekerDashboard
SetUsername(u) ==
    /\ isJobSeeker
    /\ username' = u
    /\ UNCHANGED <<resume, url_vars, extractedData, isProcessing, isSaving,
                   app_vars, task_vars, company_vars, rest_vars>>

SetUrl(field, v) ==
    /\ isJobSeeker
    /\ linkedinUrl' = IF field = "linkedin" THEN v ELSE linkedinUrl
    /\ githubUrl' = IF field = "github" THEN v ELSE githubUrl
    /\ leetcodeUrl' = IF field = "leetcode" THEN v ELSE leetcodeUrl
    /\ codeforcesUrl' = IF field = "codeforces" THEN v ELSE codeforcesUrl
    /\ UNCHANGED <<username, resume, extractedData, isProcessing, isSaving,
                   app_vars, task_vars, company_vars, rest_vars>>

\* A file is chosen in the file input (disabled while isProcessing).
handleFileChange(file) ==
    /\ isJobSeeker
    /\ ~isProcessing
    /\ resume' = file
    /\ isProcessing' = TRUE
    /\ Await([kind |-> "parse", pc |-> "await_parse", mounted |-> TRUE,
              file |-> file])
    /\ UNCHANGED <<username, url_vars, extractedData, isSaving, app_vars,
                   last_done, company_vars, rest_vars>>

\* extractResumeData(file) settles.
ParseSettles(t, outcome) ==
    /\ t.kind = "parse"
    /\ IF outcome = "ok"
          THEN /\ extractedData' = IF Mounted(t)
                                      THEN extractResumeData(t.file)
                                      ELSE extractedData
               /\ Finish(t, t, "Resume parsed successfully")
          ELSE /\ UNCHANGED extractedData
               /\ Finish(t, t, "Error parsing PDF")
    /\ isProcessing' = cleared(t, isProcessing)
    /\ UNCHANGED <<username, resume, url_vars, isSaving, app_vars,
                   company_vars, rest_vars>>

\* The URL fields that are not empty.
GivenUrls ==
    {f \in {"linkedin", "github", "leetcode", "codeforces"} :
        CASE f = "linkedin" -> linkedinUrl # ""
          [] f = "github" -> githubUrl # ""
          [] f = "leetcode" -> leetcodeUrl # ""
          [] f = "codeforces" -> codeforcesUrl # ""}

handleSaveToServer ==
    IF Trim(username) = <<>>
    THEN /\ last_done' = [kind |-> "save",
                           alert |-> "Please enter your username",
                           embed |-> "not sent", fetch |-> "not sent",
                           urls |-> GivenUrls]
         /\ UNCHANGED <<tasks, isSaving>>
    ELSE IF extractedData = NullObject
    THEN /\ last_done' = [kind |-> "save",
                           alert |-> "Please upload a resume first",
                           embed |-> "not sent", fetch |-> "not sent",
                           urls |-> GivenUrls]
         /\ UNCHANGED <<tasks, isSaving>>
    ELSE /\ isSaving' = TRUE
         /\ Await([kind |-> "save", pc |-> "await_embed", mounted |-> TRUE,
                   username |-> ReplaceSpaces(Trim(username)),
                   resume_data |-> extractedData, urls |-> GivenUrls,
                   embed |-> "pending", fetch |-> "not sent"])
         /\ UNCHANGED last_done

\* disabled={!username.trim() || !extractedData || isSaving}
SubmitDisabled_without_isSaving ==
    Trim(username) = <<>> \/ extractedData = NullObject

SubmitDisabled ==
    Trim(username) = <<>> \/ extractedData = NullObject \/ isSaving

\* The form is submitted with the Save Profile button.
handleSubmit ==
    /\ isJobSeeker
    /\ ~SubmitDisabled
    /\ handleSaveToServer
    /\ UNCHANGED <<username, resume, url_vars, extractedData, isProcessing,
                   app_vars, company_vars, rest_vars>>

\* handleSaveToServer called in any state of the dashboard.
CallSaveToServer ==
    /\ isJobSeeker
    /\ handleSaveToServer
    /\ UNCHANGED <<username, resume, url_vars, extractedData, isProcessing,
                   app_vars, company_vars, rest_vars>>

\* The save of t ends: catch / finally of handleSaveToServer.
FinishSave(t, u, a) ==
    /\ Finish(t, u, a)
    /\ isSaving' = cleared(t, isSaving)
    /\ UNCHANGED <<username, resume, url_vars, extractedData, isProcessing,
                   app_vars, company_vars, rest_vars>>

\* embedResponse.ok; a network error throws before it is read
embed_ok_always(outcome) == TRUE

embed_ok(outcome) == outcome = "ok"

\* The request to /api/embed-resume settles.
EmbedSettles(t, outcome) ==
    /\ t.kind = "save"
    /\ t.pc = "await_embed"
    /\ LET u == [t EXCEPT !.embed = outcome]
       IN  IF ~embed_ok(outcome)
           THEN FinishSave(t, u, "Error saving")
           ELSE /\ Continue(t, IF t.urls # {}
                                  THEN [u EXCEPT !.pc = "await_fetch",
                                                 !.fetch = "sent"]
                                  ELSE [u EXCEPT !.pc = "await_embed_json"])
                /\ UNCHANGED <<last_done, seeker_vars, app_vars,
                               company_vars, rest_vars>>

\* The request to /api/fetch-profile-data settles; an ok response is then
\* read with fetchResponse.json().
FetchSettles(t, outcome) ==
    /\ t.kind = "save"
    /\ t.pc = "await_fetch"
    /\ IF outcome \in {"network error", "ok, json fails"}
          THEN FinishSave(t, t, "Error saving")
          ELSE /\ Continue(t, [t EXCEPT !.pc = "await_embed_json"])
               /\ UNCHANGED <<last_done, seeker_vars, app_vars,
                              company_vars, rest_vars>>

\* embedResponse.json() settles.
EmbedJsonSettles(t, outcome) ==
    /\ t.kind = "save"
    /\ t.pc = "await_embed_json"
    /\ IF outcome = "ok"
          THEN FinishSave(t, t, "Profile saved successfully")
          ELSE FinishSave(t, t, "Error saving")

\* ---- CompanyDashboard
seeker_unchanged == UNCHANGED <<seeker_vars, app_vars, rest_vars>>

\* The job form is submitted with the Post Job button (disabled while
\* isSaving).
handleSubmitJob ==
    /\ ~isJobSeeker
    /\ ~showJobs
    /\ ~company_isSaving
    /\ company_isSaving' = TRUE
    /\ Await([kind |-> "post", pc |-> "await_embed_job", mounted |-> TRUE,
              jobId |-> "job_new"])
    /\ UNCHANGED <<lastJobId, matchedCandidates, isMatching, showMatches,
                   postedJobs, showJobs, isLoadingJobs,
                   selectedJobForMatching, rankingMethod, matches_endpoint,
                   last_done>>
    /\ seeker_unchanged

\* The request to /api/embed-job settles and an ok response is read.
PostSettles(t, outcome) ==
    /\ t.kind = "post"
    /\ IF outcome = "ok"
          THEN /\ lastJobId' = IF Mounted(t) THEN t.jobId ELSE lastJobId
               /\ Finish(t, t, "Job posted")
          ELSE /\ UNCHANGED lastJobId
               /\ Finish(t, t, "Error saving job")
    /\ company_isSaving' = cleared(t, company_isSaving)
    /\ UNCHANGED <<matchedCandidates, isMatching, showMatches, postedJobs,
                   showJobs, isLoadingJobs, selectedJobForMatching,
                   rankingMethod, matches_endpoint>>
    /\ seeker_unchanged

\* The button of the dashboard header (disabled while isLoadingJobs):
\* back to the form, or handleViewJobs.
ClickViewJobs ==
    /\ ~isJobSeeker
    /\ ~isLoadingJobs
    /\ IF showJobs
          THEN /\ showJobs' = FALSE
               /\ showMatches' = FALSE
               /\ UNCHANGED <<isLoadingJobs, task_vars>>
          ELSE /\ isLoadingJobs' = TRUE
               /\ Await([kind |-> "list", pc |-> "await_list", mounted |-> TRUE])
               /\ UNCHANGED <<showJobs, showMatches, last_done>>
    /\ UNCHANGED <<company_isSaving, lastJobId, matchedCandidates, isMatching,
                   postedJobs, selectedJobForMatching, rankingMethod,
                   matches_endpoint>>
    /\ seeker_unchanged

Absent == "absent"

\* Bodies of an ok response of /api/list-jobs.
JobLists == {Absent, <<>>, <<"job_1">>}

\* result.x || []
OrEmpty(x) == IF x = Absent THEN <<>> ELSE x

\* The request to /api/list-jobs settles and an ok response is read.
ListSettles(t, outcome, jobs) ==
    /\ t.kind = "list"
    /\ IF outcome = "ok"
          THEN /\ postedJobs' = IF Mounted(t) THEN OrEmpty(jobs) ELSE postedJobs
               /\ showJobs' = IF Mounted(t) THEN TRUE ELSE showJobs
               /\ Finish(t, t, IF jobs = Absent \/ Len(jobs) = 0
                                  THEN "No jobs posted yet" ELSE "")
          ELSE /\ UNCHANGED <<postedJobs, showJobs>>
               /\ Finish(t, t, "Error loading jobs")
    /\ isLoadingJobs' = cleared(t, isLoadingJobs)
    /\ UNCHANGED <<company_isSaving, lastJobId, matchedCandidates, isMatching,
                   showMatches, selectedJobForMatching, rankingMethod,
                   matches_endpoint>>
    /\ seeker_unchanged

\* The ranking-method select, rendered with the list of posted jobs.
SetRankingMethod(m) ==
    /\ ~isJobSeeker
    /\ showJobs
    /\ Len(postedJobs) > 0
    /\ rankingMethod' = m
    /\ UNCHANGED <<company_isSaving, lastJobId, matchedCandidates, isMatching,
                   showMatches, postedJobs, showJobs, isLoadingJobs,
                   selectedJobForMatching, matches_endpoint, task_vars>>
    /\ seeker_unchanged

endpoint_of(method) ==
    IF method = "embedding"
    THEN "/api/match-candidates"
    ELSE "/api/rank-candidates-formula"

handleFindCandidates(jobId) ==
    LET targetJobId == IF jobId # Null THEN jobId ELSE lastJobId
    IN  IF targetJobId = Null
        THEN /\ last_done' = [kind |-> "find",
                               alert |-> "Please post a job first!",
                               response |-> "not sent",
                               no_candidates |-> FALSE]
             /\ UNCHANGED <<tasks, isMatching, showMatches,
                            selectedJobForMatching>>
        ELSE /\ isMatching' = TRUE
             /\ showMatches' = FALSE
             /\ selectedJobForMatching' = targetJobId
             /\ Await([kind |-> "find", pc |-> "await_match", mounted |-> TRUE,
                       endpoint |-> endpoint_of(rankingMethod),
                       job_id |-> targetJobId, top_k |-> 20,
                       response |-> "pending", matches |-> Absent,
                       rankings |-> Absent])
             /\ UNCHANGED last_done

\* The Find Candidates button of a job card, or the Find Matching
\* Candidates button under the form (both disabled while isMatching).
ClickFindCandidates(jobId) ==
    /\ ~isJobSeeker
    /\ ~isMatching
    /\ IF jobId = Null
          THEN ~showJobs /\ lastJobId # Null
          ELSE showJobs /\ jobId \in {postedJobs[i] : i \in 1..Len(postedJobs)}
    /\ handleFindCandidates(jobId)
    /\ UNCHANGED <<company_isSaving, lastJobId, matchedCandidates, postedJobs,
                   showJobs, isLoadingJobs, rankingMethod, matches_endpoint>>
    /\ seeker_unchanged

\* Candidate lists in an ok response of a matching endpoint.
CandidateLists == {Absent, <<>>, <<"ann">>}

\* !result.matches && !result.rankings ||
\*   (result.matches?.length === 0 && result.rankings?.length === 0)
no_candidates_alert(matches, rankings) ==
    \/ (matches = Absent /\ rankings = Absent)
    \/ (matches # Absent /\ Len(matches) = 0
          /\ rankings # Absent /\ Len(rankings) = 0)

\* The matching request settles and an ok response is read.
FindSettles(t, outcome, matches, rankings) ==
    /\ t.kind = "find"
    /\ LET u == [kind |-> "find", response |-> outcome,
                 matches |-> matches, rankings |-> rankings]
       IN  IF outcome = "ok"
           THEN /\ matchedCandidates' =
                      IF ~Mounted(t) THEN matchedCandidates
                      ELSE IF matches # Absent THEN matches
                      ELSE OrEmpty(rankings)
                /\ matches_endpoint' =
                      IF Mounted(t) THEN t.endpoint ELSE matches_endpoint
                /\ showMatches' = IF Mounted(t) THEN TRUE ELSE showMatches
                /\ Finish(t, u, IF no_candidates_alert(matches, rankings)
                                   THEN "No candidates found" ELSE "")
           ELSE /\ matches = Absent
                /\ rankings = Absent
                /\ UNCHANGED <<matchedCandidates, matches_endpoint,
                               showMatches>>
                /\ Finish(t, u, "Error finding candidates")
    /\ isMatching' = cleared(t, isMatching)
    /\ UNCHANGED <<company_isSaving, lastJobId, postedJobs, showJobs,
                   isLoadingJobs, selectedJobForMatching, rankingMethod>>
    /\ seeker_unchanged

\* ---- the application
Outcomes == {"ok", "not ok", "network error"}

\* An awaited promise of task t settles.
SettleTask(t) ==
        \/ \E o \in {"ok", "error"} : ParseSettles(t, o)
        \/ \E o \in Outcomes : EmbedSettles(t, o)
        \/ \E o \in Outcomes \cup {"ok, json fails"} : FetchSettles(t, o)
        \/ \E o \in {"ok", "error"} : EmbedJsonSettles(t, o)
        \/ \E o \in Outcomes : PostSettles(t, o)
        \/ \E o \in Outcomes, j \in JobLists : ListSettles(t, o, j)
        \/ \E o \in Outcomes, m \in CandidateLists, r \in CandidateLists :
              FindSettles(t, o, m, r)

Settle == \E t \in BagToSet(tasks) : SettleTask(t)

\* An awaited promise of a handler of the mounted dashboard settles.
SettleMounted(kind) ==
    \E t \in BagToSet(tasks) : t.kind = kind /\ t.mounted /\ SettleTask(t)

UserEvent ==
    \/ ToggleDashboard
    \/ \E u \in Usernames : SetUsername(u)
    \/ \E f \in TypedUrlFields, v \in Urls : SetUrl(f, v)
    \/ \E file \in Files : handleFileChange(file)
    \/ handleSubmitJob
    \/ ClickViewJobs
    \/ \E m \in {"embedding", "formula"} : SetRankingMethod(m)
    \/ \E j \in {Null, "job_1"} : ClickFindCandidates(j)

UiInit ==
    /\ PipelineIdle
    /\ BatchIdle
    /\ ScorerIdle
    /\ RecIdle
    /\ UiInitial

UiNext ==
    \/ UserEvent
    \/ handleSubmit
    \/ Settle

UiSpec == UiInit /\ [][UiNext]_vars

\* The handlers called in any state, past the disabled attributes.
HandlerNext ==
    \/ UserEvent
    \/ CallSaveToServer
    \/ Settle

HandlerSpec == UiInit /\ [][HandlerNext]_vars

HandlerKinds == {"parse", "save", "post", "list", "find"}

\* Every awaited promise settles.
UiFairSpec == UiSpec /\ \A k \in HandlerKinds : WF_vars(SettleMounted(k))

\* ------------------------------------------------------------ properties
\* The candidate's input, read directly from data.
InputAvailable == {k \in Platforms : data[k] # NoData}

InputCount == Cardinality(InputAvailable)

\* Input that the minimum-data gate rejects.
InputGated ==
    \/ InputAvailable = {}
    \/ InputAvailable \cap {"resume", "github"} = {}

Produced == pc = "done"

\* C1: the final_score of every produced result lies in [0, 100], also
\* when raw platform scores are far above 100.
C1_FinalScoreInRange ==
    final_score # Unset =>
        /\ final_score.d > 0
        /\ 0 <= final_score.n
        /\ final_score.n <= 100 * final_score.d

\* A raw score of MaxRaw pushed the unclamped sum above 100 and the result
\* was capped.
C1_Witness ==
    /\ Produced
    /\ data["resume"] = MaxRaw * 100
    /\ RLt(R(100), confidence_adjusted_score)
    /\ final_score = R(100)

\* C2: a candidate with no platform, or with resume and github both
\* missing, ends with final_score 0 and level None straight after Step 2:
\* no weight, bonus, compensatory or penalty step is applied.
C2_MinimumDataGate ==
    (InputGated /\ pc \notin {"step1", "step2"}) =>
        /\ pc = "done"
        /\ final_score = R(0)
        /\ confidence_level = "None"
        /\ reason = "Insufficient data"
        /\ DOMAIN adjusted_weight = {}
        /\ total_available_weight = Unset
        /\ base_score = Unset
        /\ bonus = NoAdj
        /\ comp_bonus = NoAdj
        /\ penalty = NoAdj

\* A Codeforces-only candidate with the top Codeforces score was gated.
C2_Witness ==
    /\ Produced
    /\ InputAvailable = {"codeforces"}
    /\ data["codeforces"] = 10000
    /\ final_score = R(0)

RECURSIVE IntSum(_, _)
IntSum(f, S) ==
    IF S = {} THEN 0
    ELSE LET k == CHOOSE x \in S : TRUE IN f[k] + IntSum(f, S \ {k})

\* C3: for every non-empty set A of available platforms with positive
\* total weight, redistribution gives each k in A the weight
\* w[k] / sum of w over A, gives missing platforms nothing, and the adjusted
\* weights sum to 1; Step 4 stores exactly these weights for every candidate
\* that passes the gate.
C3_WeightRedistribution ==
    /\ LET A == InputAvailable
       IN  (pc = "step1" /\ A # {} /\ IntSum(original_weight, A) > 0) =>
               LET aw == redistribute(original_weight, A)
               IN  /\ DOMAIN aw = A
                   /\ \A k \in A :
                        aw[k] = Norm(original_weight[k], IntSum(original_weight, A))
                   /\ RSum(aw, A) = R(1)
    /\ pc \in {"step5", "step6", "step7", "step8", "step9", "step10",
               "step11", "step12"} \cup (IF InputGated THEN {} ELSE {"done"}) =>
         /\ IntSum(original_weight, InputAvailable) > 0
         /\ DOMAIN adjusted_weight = InputAvailable
         /\ \A k \in InputAvailable :
              adjusted_weight[k] =
                Norm(original_weight[k], IntSum(original_weight, InputAvailable))
         /\ RSum(adjusted_weight, InputAvailable) = R(1)

\* Codeforces + GitHub under the default weights: 0.375 and 0.625.
C3_Witness ==
    /\ pc = "step5"
    /\ original_weight = DefaultWeights
    /\ available = {"codeforces", "github"}
    /\ adjusted_weight["codeforces"] = Norm(375, 1000)
    /\ adjusted_weight["github"] = Norm(625, 1000)

\* clamp(0, 100, x) written by cases
Clamp0To100(x) ==
    IF x.n < 0 THEN R(0)
    ELSE IF x.n > 100 * x.d THEN R(100)
    ELSE x

\* C4: for a candidate that passes the gate,
\* final_score = clamp(0, 100, base_score * confidence + bonus + comp_bonus
\* - penalty), base_score is the weighted sum of the platform scores and the
\* penalty is 10 below two platforms plus 5 without resume and github.
C4_FinalScoreFormula ==
    (pc \in {"step12", "done"} /\ ~InputGated) =>
        LET pen == (IF InputCount < 2 THEN 10 ELSE 0)
                   + (IF "resume" \notin InputAvailable
                         /\ "github" \notin InputAvailable THEN 5 ELSE 0)
            raw == RSub(RAdd(RAdd(RMul(base_score, confidence), R(bonus)),
                             R(comp_bonus)), R(pen))
        IN  /\ penalty = pen
            /\ base_score =
                 RSum([k \in InputAvailable |->
                          RMul(Norm(data[k], 100), adjusted_weight[k])],
                      InputAvailable)
            /\ final_score = Clamp0To100(raw)

\* A single-platform candidate paid the 10-point penalty and still has an
\* unclamped score strictly between 0 and 100.
C4_Witness ==
    /\ Produced
    /\ InputAvailable = {"github"}
    /\ penalty = 10
    /\ RLt(R(0), final_score)
    /\ RLt(final_score, R(100))

ConfidenceTable == <<75, 80, 85, 90, 95, 100>>

LevelTable(n) ==
    IF n \in {5, 6} THEN "High"
    ELSE IF n \in {3, 4} THEN "Good"
    ELSE IF n = 2 THEN "Moderate"
    ELSE IF n = 1 THEN "Low"
    ELSE "None"

MarginTable(n) ==
    IF n \in {5, 6} THEN 3
    ELSE IF n \in {3, 4} THEN 5
    ELSE IF n = 2 THEN 8
    ELSE 12

\* C6 as stated: the level and margin of every result follow from the
\* platform count alone (5-6 High 3, 3-4 Good 5, 2 Moderate 8, 1 Low 12,
\* 0 None).
C6_Original ==
    Produced =>
        /\ confidence_level = LevelTable(InputCount)
        /\ InputCount >= 1 => margin = MarginTable(InputCount)

\* C6 amended: for a candidate that passes the gate the level and margin
\* follow from the platform count alone by the table; every result fixed by
\* the gate has level None and no margin, whatever its platform count.
C6_LevelAndMargin ==
    Produced =>
        IF InputGated
        THEN confidence_level = "None" /\ margin = NoAdj
        ELSE /\ confidence_level = LevelTable(InputCount)
             /\ margin = MarginTable(InputCount)

\* A four-platform candidate got level Good and margin 5.
C6_Witness ==
    /\ Produced
    /\ InputCount = 4
    /\ ~InputGated
    /\ confidence_level = "Good"
    /\ margin = 5

\* lower <= final_score <= upper with both half-widths equal to m
IntervalAround(m) ==
    /\ interval # NoInterval
    /\ RLeq(interval.lower, final_score)
    /\ RLeq(final_score, interval.upper)
    /\ RSub(interval.upper, final_score) = R(m)
    /\ RSub(final_score, interval.lower) = R(m)

\* C7 as stated: every produced result, gate results included, has an
\* interval that contains final_score with the table margin of its platform
\* count on both sides.
C7_Original ==
    Produced =>
        /\ interval # NoInterval
        /\ RLeq(interval.lower, final_score)
        /\ RLeq(final_score, interval.upper)
        /\ InputCount >= 1 => IntervalAround(MarginTable(InputCount))

\* C7 amended: every result of a candidate that passes the gate has
\* lower <= final_score <= upper with both half-widths equal to the table
\* margin of its platform count; a result fixed by the gate carries no
\* interval.
C7_IntervalContainsScore ==
    Produced =>
        IF InputGated
        THEN interval = NoInterval
        ELSE IntervalAround(MarginTable(InputCount))

\* A two-platform candidate with a positive score got the interval +-8.
C7_Witness ==
    /\ Produced
    /\ InputCount = 2
    /\ RLt(R(0), final_score)
    /\ interval.upper = RAdd(final_score, R(8))
    /\ interval.lower = RSub(final_score, R(8))

Present(k) == data[k] # NoData

\* C8: the bonus total is 5 with a resume, plus 3 with github and at least
\* one of leetcode and codeforces, plus 2 with resume and linkedin; it is a
\* function of the available set alone and at most 10.
C8_BonusByAvailability ==
    bonus # NoAdj =>
        /\ bonus = (IF Present("resume") THEN 5 ELSE 0)
                   + (IF Present("github")
                         /\ (Present("leetcode") \/ Present("codeforces"))
                      THEN 3 ELSE 0)
                   + (IF Present("resume") /\ Present("linkedin") THEN 2 ELSE 0)
        /\ bonus <= 10

\* A candidate with resume, github, a coding platform and linkedin got 10.
C8_Witness ==
    /\ Produced
    /\ bonus = 10
    /\ ~Present("leetcode")

StrongIn(k) == Present(k) /\ data[k] > 7000

WeakOrMissing(k) == ~Present(k) \/ data[k] < 5000

\* average of the present coding platforms above 70
StrongCoding ==
    CASE Present("leetcode") /\ Present("codeforces") ->
            data["leetcode"] + data["codeforces"] > 2 * 7000
      [] Present("leetcode") /\ ~Present("codeforces") -> data["leetcode"] > 7000
      [] ~Present("leetcode") /\ Present("codeforces") -> data["codeforces"] > 7000
      [] OTHER -> FALSE

\* C9: the compensatory total is the sum of the four rules, a missing
\* platform counting as weak and never as strong.
C9_CompensatoryRules ==
    comp_bonus # NoAdj =>
        comp_bonus =
            (IF StrongIn("github") /\ WeakOrMissing("leetcode") THEN 5 ELSE 0)
          + (IF StrongIn("github") /\ WeakOrMissing("codeforces") THEN 3 ELSE 0)
          + (IF StrongIn("resume") /\ ~Present("linkedin") THEN 3 ELSE 0)
          + (IF StrongCoding /\ WeakOrMissing("github") THEN 4 ELSE 0)

\* Strong github with leetcode missing and codeforces weak, strong resume
\* without linkedin: 5 + 3 + 3.
C9_Witness ==
    /\ Produced
    /\ ~Present("leetcode")
    /\ Present("codeforces")
    /\ comp_bonus = 11

\* C10 as stated: the gate fires only when nothing at all is present, and a
\* candidate without resume and github but with two other platforms passes
\* it.
C10_Original ==
    /\ reason = "Insufficient data" => InputAvailable = {}
    /\ (pc \notin {"step1", "step2"} /\ ~Present("resume") /\ ~Present("github")
          /\ InputCount >= 2) => reason # "Insufficient data"

\* C10 amended: the gate fires whenever resume and github are both missing,
\* whatever else is present; no candidate that reaches the penalty step has
\* both missing, so the -5 penalty is never applied and the penalty is 0 or
\* 10.
C10_GateCoversPenalty ==
    /\ pc \notin {"step1", "step2"} =>
          (reason = "Insufficient data"
              <=> (~Present("resume") /\ ~Present("github")))
    /\ penalty # NoAdj =>
          /\ Present("resume") \/ Present("github")
          /\ penalty \in {0, 10}
          /\ penalty = 10 <=> InputCount = 1

\* A candidate with leetcode and codeforces but no resume and no github was
\* stopped by the gate.
C10_Witness ==
    /\ Produced
    /\ InputAvailable = {"leetcode", "codeforces"}
    /\ reason = "Insufficient data"
    /\ penalty = NoAdj

\* |x - c / unit| <= half a unit of the last decimal shown
Approx(x, c, unit) ==
    LET diff == RSub(x, Norm(c, unit))
    IN  RLeq([n |-> Abs(diff.n), d |-> diff.d], Norm(1, 2 * unit))

\* C11: Codeforces 78.3 and GitHub 59.3 only, default weights: adjusted
\* weights 0.375 / 0.625, base 66.42, confidence 0.80, adjusted 53.14,
\* bonus 3, compensatory 0, penalty 0, final 56.14, Moderate,
\* interval [48.1, 64.1].
C11_TwoPlatformScenario ==
    (Produced /\ data = Example2Data /\ original_weight = DefaultWeights) =>
        /\ adjusted_weight = [codeforces |-> Norm(375, 1000), github |-> Norm(625, 1000)]
        /\ Approx(base_score, 6642, 100)
        /\ confidence = Norm(80, 100)
        /\ Approx(confidence_adjusted_score, 5314, 100)
        /\ bonus = 3
        /\ comp_bonus = 0
        /\ penalty = 0
        /\ Approx(final_score, 5614, 100)
        /\ confidence_level = "Moderate"
        /\ Approx(interval.lower, 481, 10)
        /\ Approx(interval.upper, 641, 10)

C11_Witness ==
    /\ Produced
    /\ data = Example2Data
    /\ original_weight = DefaultWeights
    /\ final_score = Norm(5614, 100)

\* C12: all six platforms with scores 0, 0, 15.1, 23.0, 70.5, 75.0 under the
\* default weights: base 25.30, confidence 1.00, bonus 10, compensatory 0,
\* penalty 0, final 35.30, High, interval [32.3, 38.3].
C12_SixPlatformScenario ==
    (Produced /\ data = Example1Data /\ original_weight = DefaultWeights) =>
        /\ Approx(base_score, 2530, 100)
        /\ confidence = R(1)
        /\ bonus = 10
        /\ comp_bonus = 0
        /\ penalty = 0
        /\ Approx(final_score, 3530, 100)
        /\ confidence_level = "High"
        /\ Approx(interval.lower, 323, 10)
        /\ Approx(interval.upper, 383, 10)

C12_Witness ==
    /\ Produced
    /\ data = Example1Data
    /\ original_weight = DefaultWeights
    /\ final_score = Norm(3530, 100)
    /\ margin = 3

CompOfData(d) ==
    LET avail == {k \in Platforms : d[k] # NoData}
    IN  comp_bonus_of(avail, [k \in avail |-> Norm(d[k], 100)])

PipelineMatchesScoreCandidate ==
    LET r == score_candidate(original_weight, data)
    IN  /\ Produced =>
             /\ r.status = (IF InputGated THEN "gated" ELSE "scored")
             /\ r.final_score = final_score
             /\ r.confidence_level = confidence_level
             /\ r.interval = interval
        /\ pc = "failed" => r.status = "failed"

Range(seq) == {seq[p] : p \in 1..Len(seq)}

\* Candidates of the batch whose task produced a result.
WithResult == {i \in BatchIds : results[i].status \in {"scored", "gated"}}

\* final_score of i is above that of j, or equal with i the smaller id
Outranks(i, j) ==
    LET si == results[i].final_score
        sj == results[j].final_score
    IN  \/ RLt(sj, si)
        \/ (si = sj /\ i < j)

\* C16: the returned sequence is the first min(K, n) entries (all n without
\* K) of the results ordered by final_score descending, equal scores by
\* candidate identifier ascending, each from a distinct candidate.
C16_RankerOutput ==
    bpc = "done" =>
        LET n == Cardinality(WithResult)
        IN  /\ Len(returned) = (IF top_k = NoK \/ top_k > n THEN n ELSE top_k)
            /\ Range(returned) \subseteq WithResult
            /\ \A p, q \in 1..Len(returned) :
                  p < q => /\ returned[p] # returned[q]
                           /\ Outranks(returned[p], returned[q])
            /\ \A j \in WithResult \ Range(returned) :
                  \A p \in 1..Len(returned) : Outranks(returned[p], j)

\* Three candidates with results, K = 2, and the two returned ones tie on a
\* positive score although the larger identifier finished first.
C16_Witness ==
    /\ bpc = "done"
    /\ top_k = 2
    /\ Cardinality(WithResult) = 3
    /\ Len(returned) = 2
    /\ results[returned[1]].final_score = results[returned[2]].final_score
    /\ RLt(R(0), results[returned[1]].final_score)
    /\ returned[1] < returned[2]
    /\ \E p, q \in 1..Len(completed) :
          p < q /\ completed[p] = returned[2] /\ completed[q] = returned[1]

\* C17: a candidate that passes the resume/github gate but whose available
\* platforms all carry zero weight ends with the gate result (final_score 0,
\* level None) instead of an error.
C17_NoUsableData ==
    (pc \notin {"step1", "step2", "step3", "step4"}
       /\ IntSum(original_weight, InputAvailable) = 0) =>
        /\ pc = "done"
        /\ final_score = R(0)
        /\ confidence_level = "None"

\* Candidates whose scoring task hits an error: the attributes cannot be
\* read, or the candidate passes the gate with available platforms of total
\* weight zero.
Failing ==
    {i \in BatchIds :
        \/ batch[i].shape = "malformed"
        \/ LET avail == {k \in Platforms : batch[i].data[k] # NoData}
           IN  /\ avail # {}
               /\ ("resume" \in avail \/ "github" \in avail)
               /\ IntSum(b_weights, avail) = 0}

\* The candidates of S by final_score descending, equal scores by
\* identifier ascending, chosen one at a time.
RECURSIVE RankingOf(_)
RankingOf(S) ==
    IF S = {} THEN <<>>
    ELSE LET best == CHOOSE i \in S : \A j \in S \ {i} : Outranks(i, j)
         IN  <<best>> \o RankingOf(S \ {best})

\* C18: a candidate whose scoring hits an error is left out of the ranking
\* and carries a warning, and the ranking of the others is the ranking of
\* the batch without that candidate.
C18_FailureIsolation ==
    bpc \in {"sorted", "done"} =>
        /\ \A i \in Failing :
              /\ i \notin Range(ranked)
              /\ results[i].warning # ""
              /\ results[i].final_score = Unset
        /\ \A i \in BatchIds \ Failing :
              /\ results[i].warning = ""
              /\ results[i].status \in {"scored", "gated"}
        /\ ranked = RankingOf(BatchIds \ Failing)

\* A malformed candidate sits between two candidates that were ranked.
C18_Witness ==
    /\ bpc = "done"
    /\ Len(batch) = 3
    /\ batch[2].shape = "malformed"
    /\ results[2].status = "error"
    /\ Range(ranked) = {1, 3}

CompletionOrders(seq) ==
    {p \in [1..Len(seq) -> Range(seq)] : Range(p) = Range(seq)}

Reverse(seq) == [p \in 1..Len(seq) |-> seq[Len(seq) + 1 - p]]

\* C19: the ranked sequence, every result in it and the returned sequence
\* are the same for every completion order of the scoring tasks.
C19_OrderIndependence ==
    /\ bpc = "sorted" =>
          \A p \in CompletionOrders(completed) :
              sort_results(results, p) = ranked
    /\ bpc = "done" =>
          returned = top_k_of(sort_results(results, Reverse(completed)), top_k)
    /\ bpc \in {"sorted", "done"} =>
          \A i \in BatchIds :
              results[i].status # "error" =>
                 results[i] = score_candidate(b_weights, batch[i].data)

\* The tasks finished in the order 3, 2, 1 and candidates 1 and 3 tie.
C19_Witness ==
    /\ bpc = "done"
    /\ completed = <<3, 2, 1>>
    /\ results[1].status = "scored"
    /\ results[1].final_score = results[3].final_score
    /\ ranked = <<2, 1, 3>>

\* C20: every call of a platform scorer returns, and the value returned is
\* in [0, 100], also when a sub-score is negative or a match ratio has a
\* zero denominator.
C20_ScorerRange ==
    scorer_pc \notin {"idle", "called"} =>
        /\ scorer_pc = "returned"
        /\ RLeq(R(0), scorer_out)
        /\ RLeq(scorer_out, R(100))

\* The resume scorer returns a negative value.
ResumeNeverNegative ==
    (scorer_pc = "returned" /\ scorer_in.platform = "resume") =>
        RLeq(R(0), scorer_out)

\* No scorer call raises.
ScorerNeverRaises == scorer_pc # "raised"

\* C21: the sub-scores of every platform scorer sum to at most 100 at full
\* strength, so no scorer returns more than 100.
C21_SubScoreMaxima ==
    \A p \in Platforms :
        (scorer_pc = "returned" /\ scorer_in.platform = p) =>
            RLeq(scorer_out, R(100))

Saves == {t \in BagToSet(tasks) : t.kind = "save"}

\* The username holds nothing but spaces.
BlankUsername == \A i \in 1..Len(username) : username[i] = " "

\* Number of handleSaveToServer invocations waiting at an await.
RECURSIVE SavesInFlight(_)
SavesInFlight(S) ==
    IF S = {} THEN 0
    ELSE LET t == CHOOSE x \in S : TRUE
         IN  tasks[t] + SavesInFlight(S \ {t})

\* C23: a step taken while the trimmed username is empty or extractedData is
\* null starts no save and does not set isSaving, and every request to
\* /api/embed-resume carries a non-empty username and non-null resume data.
C23_SaveNeedsUsernameAndData ==
    /\ [](\A t \in Saves :
             t.mounted => t.username # <<>> /\ t.resume_data # NullObject)
    /\ [][(BlankUsername \/ extractedData = NullObject) =>
             /\ isSaving' => isSaving
             /\ \A t \in {x \in BagToSet(tasks') : x.kind = "save" /\ x.mounted
                                                    /\ x.pc = "await_embed"} :
                   t \in Saves /\ tasks'[t] <= tasks[t]]_vars

\* handleSaveToServer was called with a username of one space and returned
\* at once.
C23_Witness ==
    /\ isJobSeeker
    /\ username = <<" ">>
    /\ extractedData # NullObject
    /\ last_done.alert = "Please enter your username"
    /\ ~isSaving
    /\ Saves = {}

\* C24: a request to /api/fetch-profile-data is sent only by a save whose
\* /api/embed-resume request completed with an ok response and that was
\* started with at least one URL; a save whose embed request failed or was
\* not ok sends none.
C24_FetchAfterEmbedOk ==
    /\ \A t \in Saves :
          /\ t.pc = "await_embed" => t.fetch = "not sent"
          /\ t.pc = "await_fetch" => t.fetch = "sent"
          /\ t.fetch # "not sent" => (t.embed = "ok" /\ t.urls # {})
    /\ last_done.kind = "save" =>
          /\ last_done.fetch # "not sent" =>
                (last_done.embed = "ok" /\ last_done.urls # {})
          /\ last_done.embed # "ok" => last_done.fetch = "not sent"

\* A save with a URL got an ok response from embed-resume, sent the fetch
\* request and ended with the success alert.
C24_Witness ==
    /\ last_done.kind = "save"
    /\ last_done.embed = "ok"
    /\ last_done.fetch = "sent"
    /\ last_done.urls # {}
    /\ last_done.alert = "Profile saved successfully"

\* C25: a save whose /api/embed-resume request returned an ok response ends
\* with the success alert, never with the error alert.
C25_SavedMeansSuccessAlert ==
    (last_done.kind = "save" /\ last_done.embed = "ok") =>
        last_done.alert = "Profile saved successfully"

\* C26: every busy flag that is set is cleared again once the awaited
\* promises of its handler settle.
C26_BusyFlagsCleared ==
    /\ isProcessing ~> ~isProcessing
    /\ isSaving ~> ~isSaving
    /\ company_isSaving ~> ~company_isSaving
    /\ isMatching ~> ~isMatching
    /\ isLoadingJobs ~> ~isLoadingJobs

\* handleFindCandidates failed and isMatching is false again.
C26_Witness ==
    /\ ~isJobSeeker
    /\ last_done.kind = "find"
    /\ last_done.alert = "Error finding candidates"
    /\ ~isMatching
    /\ selectedJobForMatching # Null

C28_MethodOfDisplayedList ==
    (~isJobSeeker /\ showMatches /\ Len(matchedCandidates) > 0) =>
        endpoint_of(rankingMethod) = matches_endpoint

\* C29: a successful response without candidates is followed by the
\* 'No candidates found' alert.
C29_NoCandidatesAlert ==
    (last_done.kind = "find" /\ last_done.response = "ok"
        /\ last_done.no_candidates) =>
        last_done.alert = "No candidates found"

\* C30 as stated: at most one save is in flight at any time.
C30_Original == SavesInFlight(Saves) <= 1

\* C30 amended: the mounted dashboard has at most one save in flight, and
\* it has one exactly when isSaving is true.
C30_OneSavePerInstance ==
    LET mounted == {t \in Saves : t.mounted}
    IN  /\ SavesInFlight(mounted) <= 1
        /\ isSaving <=> (isJobSeeker /\ SavesInFlight(mounted) = 1)

\* A save of the mounted dashboard is in flight with the form filled in:
\* only isSaving keeps the button disabled.
C30_Witness ==
    /\ isJobSeeker
    /\ isSaving
    /\ ~BlankUsername
    /\ extractedData # NullObject
    /\ SavesInFlight({t \in Saves : t.mounted}) = 1
====
